---- MODULE Spec2Model ----
(***************************************************************************)
(* run_flexible_cohort_analysis (main-code.py): tag each labelled          *)
(* DataFrame with its dictionary key, concatenate, sort by                 *)
(* (Acquisition Week, OS), derive the global Week Number, project onto     *)
(* target_columns, melt the checkpoint columns and hand them to the        *)
(* boxplot.                                                                *)
(*                                                                         *)
(* A DataFrame is [cols |-> sequence of column names, rows |-> sequence of *)
(* rows]; a row is a function from the frame's columns to cell values.     *)
(* Numeric and date cells are integers, NaN is the missing marker that     *)
(* pd.concat writes, OS and Week Number cells are strings.                 *)
(***************************************************************************)
EXTENDS Integers, Sequences, FiniteSets, TLC

VARIABLES data_frames_dict, date_dtype, pc, idx, processed_dfs, df_combined,
          df_final, df_long, fig_box, calls, stdout, raised, result

vars == <<data_frames_dict, date_dtype, pc, idx, processed_dfs, df_combined,
          df_final, df_long, fig_box, calls, stdout, raised, result>>

-----------------------------------------------------------------------------
(* Bounds of the inputs.                                                   *)

\* total number of rows over all the DataFrames passed in one call
MaxRows == 2

\* Acquisition Week values are the dates 1..MaxDate
MaxDate == 2

-----------------------------------------------------------------------------
(* Values and helpers.                                                     *)

\* the missing marker pd.concat fills in for a column a frame does not have
NaN == -1

Range(s) == {s[k] : k \in DOMAIN s}

Contains(s, c) == \E k \in DOMAIN s : s[k] = c

RECURSIVE Unique(_)
\* Series.unique(): the distinct values in order of first appearance
Unique(vals) ==
    IF vals = <<>> THEN <<>>
    ELSE LET front == Unique(SubSeq(vals, 1, Len(vals) - 1))
             v     == vals[Len(vals)]
         IN IF Contains(front, v) THEN front ELSE Append(front, v)

EmptyDF == [cols |-> <<>>, rows |-> <<>>]

\* dictionary keys, as in the docstring's example
Labels == {"Android", "iOS"}

\* the OS value of a frame that arrives with an OS column of its own
LegacyOS == "Legacy"

\* code points of the strings that are compared by sort_values
CodePoints(s) ==
    CASE s = "Android" -> <<65, 110, 100, 114, 111, 105, 100>>
      [] s = "iOS"     -> <<105, 79, 83>>
      [] s = "Legacy"  -> <<76, 101, 103, 97, 99, 121>>

RECURSIVE SeqLess(_, _)
\* lexicographic order on code point sequences: Python's str.__lt__
SeqLess(a, b) ==
    IF b = <<>> THEN FALSE
    ELSE IF a = <<>> THEN TRUE
    ELSE IF Head(a) # Head(b) THEN Head(a) < Head(b)
    ELSE SeqLess(Tail(a), Tail(b))

StrLess(s, t) == SeqLess(CodePoints(s), CodePoints(t))

-----------------------------------------------------------------------------
(* The column lists of the source.                                         *)

weeks_of_interest ==
    <<"Week 8", "Week 12", "Week 16", "Week 20",
      "Week 24", "Week 28", "Week 32", "Week 36", "Week 40">>

target_columns ==
    <<"Acquisition Week", "Week Number", "OS",
      "Total Subscriptions", "Total Unsubscriptions", "Subs Remaining",
      "Payout Total (€)", "Total Gross (€)", "Margin">> \o weeks_of_interest

-----------------------------------------------------------------------------
(* Step 1: tagging, concatenation, sort.                                   *)

\* mutant: the label is only written where the frame has no OS column yet
TagKeepExisting(source_name, df_raw) ==
    IF Contains(df_raw.cols, "OS") THEN df_raw
    ELSE [cols |-> Append(df_raw.cols, "OS"),
          rows |-> [k \in DOMAIN df_raw.rows |->
                      [c \in Range(df_raw.cols) \cup {"OS"} |->
                         IF c = "OS" THEN source_name ELSE df_raw.rows[k][c]]]]

\* df_temp = df_raw.copy(); df_temp['OS'] = source_name
Tag(source_name, df_raw) ==
    [cols |-> IF Contains(df_raw.cols, "OS") THEN df_raw.cols
              ELSE Append(df_raw.cols, "OS"),
     rows |-> [k \in DOMAIN df_raw.rows |->
                 [c \in Range(df_raw.cols) \cup {"OS"} |->
                    IF c = "OS" THEN source_name ELSE df_raw.rows[k][c]]]]

RECURSIVE UnionCols(_)
\* the columns of the frames in order of first appearance (join='outer', sort=False)
UnionCols(dfs) ==
    IF dfs = <<>> THEN <<>>
    ELSE LET front == UnionCols(SubSeq(dfs, 1, Len(dfs) - 1))
             last  == dfs[Len(dfs)].cols
         IN front \o SelectSeq(last, LAMBDA c : ~Contains(front, c))

\* a row widened to the columns cs, NaN where it has no cell
Reindex(r, cs) == [c \in cs |-> IF c \in DOMAIN r THEN r[c] ELSE NaN]

RECURSIVE ConcatRows(_, _)
ConcatRows(dfs, cs) ==
    IF dfs = <<>> THEN <<>>
    ELSE [k \in DOMAIN Head(dfs).rows |-> Reindex(Head(dfs).rows[k], cs)]
         \o ConcatRows(Tail(dfs), cs)

\* mutant: the concatenation followed by drop_duplicates()
ConcatDropDuplicates(dfs) ==
    LET cs == UnionCols(dfs)
    IN [cols |-> cs, rows |-> Unique(ConcatRows(dfs, Range(cs)))]

\* pd.concat(processed_dfs, ignore_index=True)
Concat(dfs) ==
    LET cs == UnionCols(dfs)
    IN [cols |-> cs, rows |-> ConcatRows(dfs, Range(cs))]

\* ascending order of Acquisition Week with na_position='last'
DateLess(d, e) == d # NaN /\ (e = NaN \/ d < e)

\* mutant: by=['Acquisition Week'] alone
RowLessDateOnly(r, s) ==
    DateLess(r["Acquisition Week"], s["Acquisition Week"])

\* r sorts strictly before s under by=['Acquisition Week', 'OS']
RowLess(r, s) ==
    \/ DateLess(r["Acquisition Week"], s["Acquisition Week"])
    \/ /\ r["Acquisition Week"] = s["Acquisition Week"]
       /\ StrLess(r["OS"], s["OS"])

RECURSIVE InsertRow(_, _)
\* r goes after every row that does not sort after it: the sort is stable
InsertRow(sorted, r) ==
    IF sorted = <<>> THEN <<r>>
    ELSE IF RowLess(r, Head(sorted)) THEN <<r>> \o sorted
    ELSE <<Head(sorted)>> \o InsertRow(Tail(sorted), r)

RECURSIVE SortRows(_)
SortRows(rows) ==
    IF rows = <<>> THEN <<>>
    ELSE InsertRow(SortRows(SubSeq(rows, 1, Len(rows) - 1)), rows[Len(rows)])

\* df.sort_values(by=['Acquisition Week', 'OS']) raises KeyError without the column
SortRaises(df) == ~Contains(df.cols, "Acquisition Week")

SortValues(df) == [cols |-> df.cols, rows |-> SortRows(df.rows)]

-----------------------------------------------------------------------------
(* Week Number.                                                            *)

DateColumn(df) == [k \in DOMAIN df.rows |-> df.rows[k]["Acquisition Week"]]

\* Python's < on two dates; every comparison with NaN / NaT is False
PyLess(a, b) == a # NaN /\ b # NaN /\ a < b

RECURSIVE PyInsert(_, _)
PyInsert(sorted, x) ==
    IF sorted = <<>> THEN <<x>>
    ELSE IF PyLess(x, sorted[Len(sorted)])
         THEN Append(PyInsert(SubSeq(sorted, 1, Len(sorted) - 1), x),
                     sorted[Len(sorted)])
         ELSE Append(sorted, x)

RECURSIVE PySorted(_)
\* sorted(...): an insertion sort that only ever asks x < y
PySorted(vals) ==
    IF vals = <<>> THEN <<>>
    ELSE PyInsert(PySorted(SubSeq(vals, 1, Len(vals) - 1)), vals[Len(vals)])

\* with string dates (dtype object) the missing cell is a float, and
\* sorted() raises TypeError as soon as it compares it with a str
SortedRaises(df, dtype) ==
    LET u == Unique(DateColumn(df))
    IN dtype = "object" /\ Contains(u, NaN) /\ Len(u) > 1

unique_dates(df) == PySorted(Unique(DateColumn(df)))

\* mutant: f"Week {i}"
WeekLabelZeroBased(i) == "Week " \o ToString(i)

\* f"Week {i+1}"
WeekLabel(i) == "Week " \o ToString(i + 1)

\* {date: f"Week {i+1}" for i, date in enumerate(unique_dates)}
date_to_week_map(df) ==
    LET u == unique_dates(df)
    IN [d \in Range(u) |-> WeekLabel((CHOOSE k \in DOMAIN u : u[k] = d) - 1)]

\* df_combined['Week Number'] = df_combined['Acquisition Week'].map(date_to_week_map)
AddWeekNumber(df) ==
    LET m == date_to_week_map(df)
    IN [cols |-> IF Contains(df.cols, "Week Number") THEN df.cols
                 ELSE Append(df.cols, "Week Number"),
        rows |-> [k \in DOMAIN df.rows |->
                    [c \in Range(df.cols) \cup {"Week Number"} |->
                       IF c = "Week Number"
                       THEN m[df.rows[k]["Acquisition Week"]]
                       ELSE df.rows[k][c]]]]

-----------------------------------------------------------------------------
(* Projection and melt.                                                    *)

\* mutant: [col for col in df_combined.columns if col in target_columns]
final_colsInputOrder(df) ==
    SelectSeq(df.cols, LAMBDA c : Contains(target_columns, c))

\* [col for col in target_columns if col in df_combined.columns]
final_cols(df) == SelectSeq(target_columns, LAMBDA c : Contains(df.cols, c))

\* mutant: df_combined[final_cols].dropna(axis=1)
ProjectDropNaColumns(df) ==
    LET fc == SelectSeq(final_cols(df),
                        LAMBDA c : \/ c \in {"OS", "Week Number"}
                                   \/ \A k \in DOMAIN df.rows : df.rows[k][c] # NaN)
    IN [cols |-> fc,
        rows |-> [k \in DOMAIN df.rows |-> [c \in Range(fc) |-> df.rows[k][c]]]]

\* df_combined[final_cols]
Project(df) ==
    LET fc == final_cols(df)
    IN [cols |-> fc,
        rows |-> [k \in DOMAIN df.rows |-> [c \in Range(fc) |-> df.rows[k][c]]]]

\* mutant: [col for col in target_columns if col in df_final.columns]
cols_to_meltAnyTarget(df) ==
    SelectSeq(target_columns, LAMBDA c : Contains(df.cols, c))

\* [col for col in weeks_of_interest if col in df_final.columns]
cols_to_melt(df) == SelectSeq(weeks_of_interest, LAMBDA c : Contains(df.cols, c))

LongRecord(r, c) ==
    [f \in {"OS", "Cohort_Period", "Value (€)"} |->
       IF f = "OS" THEN r["OS"]
       ELSE IF f = "Cohort_Period" THEN c
       ELSE r[c]]

RECURSIVE MeltRows(_, _)
\* one block of rows per value column, the blocks in value_vars order
MeltRows(rows, cs) ==
    IF cs = <<>> THEN <<>>
    ELSE [k \in DOMAIN rows |-> LongRecord(rows[k], Head(cs))]
         \o MeltRows(rows, Tail(cs))

\* mutant: the melt followed by dropna()
MeltDropNa(df, value_vars) ==
    [cols |-> <<"OS", "Cohort_Period", "Value (€)">>,
     rows |-> SelectSeq(MeltRows(df.rows, value_vars),
                        LAMBDA r : r["Value (€)"] # NaN)]

\* df_final.melt(id_vars=['OS'], value_vars=cols_to_melt, ...)
Melt(df, value_vars) ==
    [cols |-> <<"OS", "Cohort_Period", "Value (€)">>,
     rows |-> MeltRows(df.rows, value_vars)]

\* px.box(df_long, ...) followed by update_layout(boxmode='group')
BoxFigure(long) ==
    [data |-> long, x |-> "Cohort_Period", y |-> "Value (€)", color |-> "OS",
     points |-> "all", category_orders |-> weeks_of_interest,
     boxmode |-> "group", shown |-> TRUE]

NoFigure ==
    [data |-> EmptyDF, x |-> "", y |-> "", color |-> "", points |-> "",
     category_orders |-> <<>>, boxmode |-> "", shown |-> FALSE]

-----------------------------------------------------------------------------
(* The whole call as a function of its argument.                           *)

NoResult     == [kind |-> "none",  msg |-> "", table |-> EmptyDF]
ErrorResult  == [kind |-> "error", msg |-> "Error: No dataframes provided.",
                 table |-> EmptyDF]
TableResult(df) == [kind |-> "table", msg |-> "", table |-> df]

Processed(dict) == [k \in DOMAIN dict |-> Tag(dict[k].name, dict[k].df)]

\* the value returned, or the exception that ends the call
Analysis(dict, dtype) ==
    IF dict = <<>> THEN [raised |-> "None", result |-> ErrorResult]
    ELSE LET combined == Concat(Processed(dict))
         IN IF SortRaises(combined)
            THEN [raised |-> "KeyError", result |-> NoResult]
            ELSE LET sorted == SortValues(combined)
                 IN IF SortedRaises(sorted, dtype)
                    THEN [raised |-> "TypeError", result |-> NoResult]
                    ELSE [raised |-> "None",
                          result |-> TableResult(Project(AddWeekNumber(sorted)))]

-----------------------------------------------------------------------------
(* The arguments a call is made with.                                      *)

\* column layouts of the raw frames: checkpoint columns out of canonical
\* order; an OS column of its own, the payout column under both spellings
\* and a column outside target_columns; no Acquisition Week at all
Layouts ==
    { <<"Week 12", "Acquisition Week", "Week 8">>,
      <<"Acquisition Week", "OS", "Payout Total (€)", "Payout Total", "Extra">>,
      <<"Week 8", "Margin">> }

Dates == 1..MaxDate

CellValues(c) ==
    CASE c = "Acquisition Week"  -> Dates
      [] c = "Week 8"            -> {100, 150}
      [] c = "Week 12"           -> {120}
      [] c = "Payout Total (€)"  -> {30}
      [] c = "Payout Total"      -> {31}
      [] c = "Margin"            -> {4}
      [] c = "Extra"             -> {9}

NumericCells(layout) ==
    LET cs == Range(layout) \ {"OS"}
    IN {n \in [cs -> UNION {CellValues(c) : c \in cs}] :
          \A c \in cs : n[c] \in CellValues(c)}

RawRows(layout) ==
    {[c \in Range(layout) |-> IF c = "OS" THEN LegacyOS ELSE n[c]] :
       n \in NumericCells(layout)}

\* the raw frames of n rows
RawFrames(n) ==
    UNION {{[cols |-> layout, rows |-> rs] : rs \in [1..n -> RawRows(layout)]} :
           layout \in Layouts}

Entries(l, n) == {[name |-> l, df |-> f] : f \in RawFrames(n)}

RECURSIVE TotalRows(_)
TotalRows(dict) ==
    IF dict = <<>> THEN 0 ELSE Len(Head(dict).df.rows) + TotalRows(Tail(dict))

\* the dicts of two entries whose first has key l1 and n1 rows
PairsOf(l1, n1) ==
    UNION {{<<e1, e2>> : e1 \in Entries(l1, n1), e2 \in Entries(l2, n2)} :
           l2 \in Labels \ {l1}, n2 \in 0..(MaxRows - n1)}

\* a dict: keys are unique, iteration is in insertion order
Dicts ==
    {<<>>}
    \cup UNION {{<<e>> : e \in Entries(l, n)} : l \in Labels, n \in 0..MaxRows}
    \cup UNION {PairsOf(l1, n1) : l1 \in Labels, n1 \in 0..MaxRows}

-----------------------------------------------------------------------------
(* The call, statement by statement.                                       *)

Init ==
    /\ data_frames_dict \in Dicts
    /\ date_dtype \in {"object", "datetime64"}
    /\ pc = "tag"
    /\ idx = 1
    /\ processed_dfs = <<>>
    /\ df_combined = EmptyDF
    /\ df_final = EmptyDF
    /\ df_long = EmptyDF
    /\ fig_box = NoFigure
    /\ calls = <<>>
    /\ stdout = <<>>
    /\ raised = "None"
    /\ result = NoResult

\* one pass of: for source_name, df_raw in data_frames_dict.items()
TagStep ==
    /\ pc = "tag"
    /\ idx <= Len(data_frames_dict)
    /\ processed_dfs' = Append(processed_dfs,
                               Tag(data_frames_dict[idx].name,
                                   data_frames_dict[idx].df))
    /\ idx' = idx + 1
    /\ UNCHANGED <<data_frames_dict, date_dtype, pc, df_combined, df_final,
                   df_long, fig_box, calls, stdout, raised, result>>

\* if not processed_dfs: return "Error: No dataframes provided."
ReturnError ==
    /\ pc = "tag"
    /\ idx > Len(data_frames_dict)
    /\ processed_dfs = <<>>
    /\ result' = ErrorResult
    /\ pc' = "done"
    /\ UNCHANGED <<data_frames_dict, date_dtype, idx, processed_dfs,
                   df_combined, df_final, df_long, fig_box, calls, stdout,
                   raised>>

\* mutant: the concatenation without the emptiness check before it
ConcatStepUnchecked ==
    /\ pc = "tag"
    /\ idx > Len(data_frames_dict)
    /\ df_combined' = Concat(processed_dfs)
    /\ calls' = Append(calls, "concat")
    /\ pc' = "sort"
    /\ UNCHANGED <<data_frames_dict, date_dtype, idx, processed_dfs, df_final,
                   df_long, fig_box, stdout, raised, result>>

\* df_combined = pd.concat(processed_dfs, ignore_index=True)
ConcatStep ==
    /\ pc = "tag"
    /\ idx > Len(data_frames_dict)
    /\ processed_dfs # <<>>
    /\ df_combined' = Concat(processed_dfs)
    /\ calls' = Append(calls, "concat")
    /\ pc' = "sort"
    /\ UNCHANGED <<data_frames_dict, date_dtype, idx, processed_dfs, df_final,
                   df_long, fig_box, stdout, raised, result>>

SortStep ==
    /\ pc = "sort"
    /\ ~SortRaises(df_combined)
    /\ df_combined' = SortValues(df_combined)
    /\ calls' = Append(calls, "sort_values")
    /\ pc' = "week"
    /\ UNCHANGED <<data_frames_dict, date_dtype, idx, processed_dfs, df_final,
                   df_long, fig_box, stdout, raised, result>>

SortKeyError ==
    /\ pc = "sort"
    /\ SortRaises(df_combined)
    /\ raised' = "KeyError"
    /\ calls' = Append(calls, "sort_values")
    /\ pc' = "raised"
    /\ UNCHANGED <<data_frames_dict, date_dtype, idx, processed_dfs,
                   df_combined, df_final, df_long, fig_box, stdout, result>>

WeekStep ==
    /\ pc = "week"
    /\ ~SortedRaises(df_combined, date_dtype)
    /\ df_combined' = AddWeekNumber(df_combined)
    /\ calls' = Append(calls, "map")
    /\ pc' = "project"
    /\ UNCHANGED <<data_frames_dict, date_dtype, idx, processed_dfs, df_final,
                   df_long, fig_box, stdout, raised, result>>

WeekTypeError ==
    /\ pc = "week"
    /\ SortedRaises(df_combined, date_dtype)
    /\ raised' = "TypeError"
    /\ calls' = Append(calls, "sorted")
    /\ pc' = "raised"
    /\ UNCHANGED <<data_frames_dict, date_dtype, idx, processed_dfs,
                   df_combined, df_final, df_long, fig_box, stdout, result>>

ProjectStep ==
    /\ pc = "project"
    /\ df_final' = Project(df_combined)
    /\ pc' = "melt"
    /\ UNCHANGED <<data_frames_dict, date_dtype, idx, processed_dfs,
                   df_combined, df_long, fig_box, calls, stdout, raised,
                   result>>

\* if cols_to_melt: df_long = df_final.melt(...)
MeltStep ==
    /\ pc = "melt"
    /\ cols_to_melt(df_final) # <<>>
    /\ df_long' = Melt(df_final, cols_to_melt(df_final))
    /\ calls' = Append(calls, "melt")
    /\ pc' = "box"
    /\ UNCHANGED <<data_frames_dict, date_dtype, idx, processed_dfs,
                   df_combined, df_final, fig_box, stdout, raised, result>>

\* fig_box = px.box(...); fig_box.update_layout(boxmode='group'); fig_box.show()
BoxStep ==
    /\ pc = "box"
    /\ fig_box' = BoxFigure(df_long)
    /\ calls' = Append(calls, "box")
    /\ pc' = "return"
    /\ UNCHANGED <<data_frames_dict, date_dtype, idx, processed_dfs,
                   df_combined, df_final, df_long, stdout, raised, result>>

\* else: print("Warning: ...")
WarnStep ==
    /\ pc = "melt"
    /\ cols_to_melt(df_final) = <<>>
    /\ stdout' = Append(stdout,
         "Warning: No columns found for the requested weeks (Week 8, 12, etc.) in the data.")
    /\ pc' = "return"
    /\ UNCHANGED <<data_frames_dict, date_dtype, idx, processed_dfs,
                   df_combined, df_final, df_long, fig_box, calls, raised,
                   result>>

\* return df_final
ReturnStep ==
    /\ pc = "return"
    /\ result' = TableResult(df_final)
    /\ pc' = "done"
    /\ UNCHANGED <<data_frames_dict, date_dtype, idx, processed_dfs,
                   df_combined, df_final, df_long, fig_box, calls, stdout,
                   raised>>

Next ==
    \/ TagStep
    \/ ReturnError
    \/ ConcatStep
    \/ SortStep
    \/ SortKeyError
    \/ WeekStep
    \/ WeekTypeError
    \/ ProjectStep
    \/ MeltStep
    \/ BoxStep
    \/ WarnStep
    \/ ReturnStep

Spec == Init /\ [][Next]_vars

\* the statements agree with the call taken as a function
StepsAgree ==
    pc \in {"done", "raised"} =>
        /\ Analysis(data_frames_dict, date_dtype).raised = raised
        /\ Analysis(data_frames_dict, date_dtype).result = result

-----------------------------------------------------------------------------
(* Vocabulary of the properties.                                           *)

\* the call has returned a table
Returned == pc = "done" /\ result.kind = "table"

Count(seq, r) == Cardinality({k \in DOMAIN seq : seq[k] = r})

\* the same rows, each as often, in any order
SameBag(s, t) ==
    /\ Len(s) = Len(t)
    /\ \A k \in DOMAIN s : Count(s, s[k]) = Count(t, s[k])

Restrict(r, cs) == [c \in cs |-> r[c]]

RestrictRows(rows, cs) == [k \in DOMAIN rows |-> Restrict(rows[k], cs)]

\* position of column c in the list cs
Position(cs, c) == CHOOSE k \in DOMAIN cs : cs[k] = c

\* every column some raw frame has, with the two the call adds
ColumnsPresent(dict) ==
    UNION {Range(dict[k].df.cols) : k \in DOMAIN dict} \cup {"OS", "Week Number"}

-----------------------------------------------------------------------------
(* C6  Row conservation.                                                   *)

\* C6: for every non-empty input the returned table has as many rows as
\* all the input frames together
RowConservation ==
    Returned => Len(result.table.rows) = TotalRows(data_frames_dict)

\* two sources that both contribute rows
RowConservationWitness ==
    /\ Returned
    /\ Len(data_frames_dict) = 2
    /\ \A k \in DOMAIN data_frames_dict : Len(data_frames_dict[k].df.rows) >= 1

-----------------------------------------------------------------------------
(* C7  Source tagging.                                                     *)

\* the cells a raw row keeps on its way into the returned table
KeptColumns(df) ==
    (Range(df.cols) \cap Range(target_columns)) \ {"OS", "Week Number"}

\* C7: the returned rows whose OS is a key of the dict are the rows of that
\* key's frame, and no returned row carries any other OS value, whatever
\* the frame's own OS column said
SourceTagging ==
    Returned =>
        /\ \A k \in DOMAIN result.table.rows :
              \E e \in DOMAIN data_frames_dict :
                 result.table.rows[k]["OS"] = data_frames_dict[e].name
        /\ \A e \in DOMAIN data_frames_dict :
              LET raw  == data_frames_dict[e].df
                  mine == SelectSeq(result.table.rows,
                                    LAMBDA r : r["OS"] = data_frames_dict[e].name)
              IN SameBag(RestrictRows(mine, KeptColumns(raw)),
                         RestrictRows(raw.rows, KeptColumns(raw)))

\* a frame that came with OS = "Legacy" in every row has been returned
SourceTaggingWitness ==
    /\ Returned
    /\ \E e \in DOMAIN data_frames_dict :
          /\ Contains(data_frames_dict[e].df.cols, "OS")
          /\ Len(data_frames_dict[e].df.rows) >= 1
          /\ data_frames_dict[e].df.rows[1]["OS"] = LegacyOS

-----------------------------------------------------------------------------
(* C8  Output ordering.                                                    *)

\* rows without a date sort after every dated row
DateKey(d) == IF d = NaN THEN MaxDate + 1 ELSE d

KeyLeq(r, s) ==
    \/ DateKey(r["Acquisition Week"]) < DateKey(s["Acquisition Week"])
    \/ /\ DateKey(r["Acquisition Week"]) = DateKey(s["Acquisition Week"])
       /\ (r["OS"] = s["OS"] \/ StrLess(r["OS"], s["OS"]))

\* C8: adjacent rows of the returned table are in ascending order of
\* (Acquisition Week, OS)
OutputOrdering ==
    Returned =>
        \A k \in 1..(Len(result.table.rows) - 1) :
           KeyLeq(result.table.rows[k], result.table.rows[k + 1])

\* iOS was passed first and Android second; on a shared date Android comes first
OutputOrderingWitness ==
    /\ Returned
    /\ Len(data_frames_dict) = 2
    /\ data_frames_dict[1].name = "iOS"
    /\ Len(result.table.rows) = 2
    /\ result.table.rows[1]["Acquisition Week"] = result.table.rows[2]["Acquisition Week"]
    /\ result.table.rows[1]["Acquisition Week"] # NaN
    /\ result.table.rows[1]["OS"] = "Android"
    /\ result.table.rows[2]["OS"] = "iOS"

-----------------------------------------------------------------------------
(* C4  Week index.                                                         *)

DatesOf(rows) ==
    {rows[k]["Acquisition Week"] : k \in DOMAIN rows} \ {NaN}

RankIn(D, d) == Cardinality({e \in D : e <= d})

-----------------------------------------------------------------------------
(* C5  Empty input.                                                        *)

\* C5: with an empty dict the call returns the error string and nothing
\* else happens: no concat, sort, map, melt, chart or print, no exception
EmptyInput ==
    data_frames_dict = <<>> =>
        /\ pc \in {"tag", "done"}
        /\ raised = "None"
        /\ calls = <<>>
        /\ stdout = <<>>
        /\ fig_box = NoFigure
        /\ df_combined = EmptyDF
        /\ pc = "done" => result = ErrorResult

EmptyInputWitness ==
    /\ data_frames_dict = <<>>
    /\ pc = "done"
    /\ result.kind = "error"

-----------------------------------------------------------------------------
(* C2  Column projection.                                                  *)

\* the allow-list as the specification spells it
SpecAllowList ==
    <<"Acquisition Week", "Week Number", "OS",
      "Total Subscriptions", "Total Unsubscriptions", "Subs Remaining",
      "Payout Total", "Total Gross", "Margin",
      "Week 8", "Week 12", "Week 16", "Week 20",
      "Week 24", "Week 28", "Week 32", "Week 36", "Week 40">>

\* the allow-list with the two currency columns spelled as the data has them
EuroAllowList ==
    <<"Acquisition Week", "Week Number", "OS",
      "Total Subscriptions", "Total Unsubscriptions", "Subs Remaining",
      "Payout Total (€)", "Total Gross (€)", "Margin",
      "Week 8", "Week 12", "Week 16", "Week 20",
      "Week 24", "Week 28", "Week 32", "Week 36", "Week 40">>

\* the columns of df are the listed columns that are present, in list order,
\* and every row has exactly those cells
ProjectsOnto(df, allow, present) ==
    /\ Range(df.cols) = Range(allow) \cap present
    /\ \A i, j \in DOMAIN df.cols :
          i < j => Position(allow, df.cols[i]) < Position(allow, df.cols[j])
    /\ \A k \in DOMAIN df.rows : DOMAIN df.rows[k] = Range(df.cols)

\* C2 as stated: the returned columns are the specification's allow-list
\* cut down to the columns present, in allow-list order
ColumnProjectionAsStated ==
    Returned =>
        ProjectsOnto(result.table, SpecAllowList, ColumnsPresent(data_frames_dict))

\* C2 amended: the same with 'Payout Total (€)' and 'Total Gross (€)' in the
\* allow-list in place of 'Payout Total' and 'Total Gross'
ColumnProjection ==
    Returned =>
        ProjectsOnto(result.table, EuroAllowList, ColumnsPresent(data_frames_dict))

\* a frame whose columns arrive in another order than the allow-list's,
\* next to one with a column outside the list
ColumnProjectionWitness ==
    /\ Returned
    /\ Len(data_frames_dict) = 2
    /\ data_frames_dict[1].df.cols = <<"Week 12", "Acquisition Week", "Week 8">>
    /\ Contains(data_frames_dict[2].df.cols, "Extra")
    /\ result.table.cols =
          <<"Acquisition Week", "Week Number", "OS", "Payout Total (€)",
            "Week 8", "Week 12">>

-----------------------------------------------------------------------------
(* C3  Missing columns.                                                    *)

\* C3 as stated: a call with a non-empty dict never ends in an exception,
\* whichever allow-list columns its frames lack
MissingColumnsNonFatal ==
    data_frames_dict # <<>> => pc # "raised"

-----------------------------------------------------------------------------
(* C9  Checkpoint reshape.                                                 *)

\* C9: the frame handed to px.box has one record per (row, checkpoint
\* column present), NaN cells included; the records of one column follow
\* the table's row order and the columns follow Week 8 .. Week 40
CheckpointReshape ==
    fig_box.shown =>
        LET rows == df_final.rows
            cs   == SelectSeq(weeks_of_interest,
                              LAMBDA c : c \in Range(df_final.cols))
            n    == Len(rows)
            long == fig_box.data.rows
        IN /\ Len(long) = n * Len(cs)
           /\ \A j \in DOMAIN cs : \A k \in DOMAIN rows :
                 /\ long[(j - 1) * n + k]["OS"] = rows[k]["OS"]
                 /\ long[(j - 1) * n + k]["Cohort_Period"] = cs[j]
                 /\ long[(j - 1) * n + k]["Value (€)"] = rows[k][cs[j]]

\* two rows and two checkpoint columns, one of the four cells missing
CheckpointReshapeWitness ==
    /\ fig_box.shown
    /\ Len(df_final.rows) = 2
    /\ Contains(df_final.cols, "Week 8")
    /\ Contains(df_final.cols, "Week 12")
    /\ \E k \in DOMAIN fig_box.data.rows : fig_box.data.rows[k]["Value (€)"] = NaN
    /\ \E k \in DOMAIN fig_box.data.rows : fig_box.data.rows[k]["Value (€)"] # NaN

-----------------------------------------------------------------------------
(* C10  Chart gating.                                                      *)

\* C10: a returned call has drawn the chart exactly when the table has a
\* checkpoint column; without one it has printed one warning, drawn nothing
\* and raised nothing; either way the table returned is the projected table
ChartGating ==
    Returned =>
        LET has == \E k \in DOMAIN weeks_of_interest :
                      Contains(result.table.cols, weeks_of_interest[k])
        IN /\ fig_box.shown <=> has
           /\ Count(calls, "box") = (IF has THEN 1 ELSE 0)
           /\ Len(stdout) = (IF has THEN 0 ELSE 1)
           /\ raised = "None"
           /\ result.table = df_final

\* a table without any checkpoint column has been returned after the warning
ChartGatingWitness ==
    /\ Returned
    /\ Len(result.table.rows) >= 1
    /\ ~fig_box.shown
    /\ Len(stdout) = 1

-----------------------------------------------------------------------------
(* C1  Merging in one call and in two.                                     *)

Single(k) == Analysis(<<data_frames_dict[k]>>, date_dtype)

\* the two separate results, concatenated and re-sorted by (Acquisition Week, OS)
MergedSeparately ==
    SortValues(Concat(<<Single(1).result.table, Single(2).result.table>>))

\* all three calls return a table
ThreeTables ==
    /\ Returned
    /\ Len(data_frames_dict) = 2
    /\ Single(1).result.kind = "table"
    /\ Single(2).result.kind = "table"

\* the same columns and the same rows on the columns cs, in any order
SameContentOn(df1, df2, cs) ==
    /\ Range(df1.cols) = Range(df2.cols)
    /\ SameBag(RestrictRows(df1.rows, Range(df1.cols) \cap cs),
               RestrictRows(df2.rows, Range(df2.cols) \cap cs))

====
